---- MODULE Spec2Model ----
(***************************************************************************)
(* Model of the tax-form dependency-tree scripts of learn-typedb:          *)
(*   scripts/calculation-tree/tax_form_calc_tree.py   PurelyGenericTreeBuilder   *)
(*   scripts/calculation-tree/taxpayer_calc_tree.py   GenericTaxpayerTreeBuilder *)
(*   scripts/calculation-tree/query_dependency_tree.py  year / taxpayer views, main *)
(*   scripts/calculation-tree/semantic_tax_system.py  TypeQL functions and 2024 data *)
(*                                                                         *)
(* Conventions.  Money amounts are whole dollars; a tax amount is kept in  *)
(* cents and a bracket rate in percent, so that base + (taxable-min)*rate  *)
(* is exact integer arithmetic.  A TypeQL function or query result is the  *)
(* set of rows it may return: {} is "no row", and "return first" over an   *)
(* unsorted match may return any element of the set.  An indent string is  *)
(* a sequence of four-character units: "S" is four spaces, "B" is a bar    *)
(* followed by three spaces.  A recursive Python call is a frame on the    *)
(* variable stack.                                                         *)
(***************************************************************************)
EXTENDS Integers, Sequences, FiniteSets, TLC

VARIABLES
    builder,          \* which renderer the current top-level call runs
    root,             \* field id the top-level call was given
    fields,           \* field id -> [name, function, dependencies(, dependents)]
    function_specs,   \* function name -> [type, display_pattern, query_pattern]
    db,               \* database content read by the queries
    taxpayer_context, \* GenericTaxpayerTreeBuilder.taxpayer_context
    taxpayer_values,  \* GenericTaxpayerTreeBuilder.taxpayer_values
    calculations,     \* argument of build_taxpayer_specific_tree
    stack,            \* active recursive calls, innermost last
    visited,          \* the visited set shared by one top-level call
    tree,             \* lines of the string built so far
    queries,          \* queries issued on the transaction since the top-level call
    status,           \* "idle", "running", "returned", "raised", "printed"
    args,             \* command line of query_dependency_tree.main
    pc,               \* position of main
    printed,          \* what main has printed
    driver,           \* "none", "open", "closed"
    taxable_income,   \* rows of calculate_taxable_income, once called
    federal_tax,      \* rows of calculate_federal_tax, once called
    script,           \* the setup or maintenance script that runs
    at,               \* index of the script's next operation
    connection,       \* the script's driver: "none", "open", "closed"
    open_txs,         \* the script's open transactions, innermost last
    databases,        \* database name -> [exists, schema, data] on the server
    log,              \* the steps the script has completed, in order
    outcome,          \* "off", "running", "returned", "raised", "exited"
    runs              \* completed runs of the script before the current one

treeVars == <<builder, root, fields, function_specs, db, taxpayer_context,
              taxpayer_values, calculations, stack, visited, tree, queries, status>>
mainVars == <<args, pc, printed, driver>>
taxVars == <<taxable_income, federal_tax>>
scriptVars == <<script, at, connection, open_txs, databases, log, outcome, runs>>
vars == <<builder, root, fields, function_specs, db, taxpayer_context,
          taxpayer_values, calculations, stack, visited, tree, queries, status,
          args, pc, printed, driver, taxable_income, federal_tax,
          script, at, connection, open_txs, databases, log, outcome, runs>>

(***************************************************************************)
(* Bounds                                                                  *)
(***************************************************************************)
\* Largest number of field_dependency rows in the database.
MaxRows == 3

(***************************************************************************)
(* Program constants and inserted data                                     *)
(***************************************************************************)
OpenEndedMax == 999999999

DefaultRootField == "1040-line-16"

FilingStatuses == {"single", "married_filing_jointly", "head_of_household"}

FilingStatusDisplay ==
    [single |-> "Single",
     married_filing_jointly |-> "Married Filing Jointly",
     head_of_household |-> "Head of Household"]

\* deduction_amount of the standard_deduction_rule of each status, year 2024.
StandardDeductions ==
    [single |-> 14600, married_filing_jointly |-> 29200, head_of_household |-> 21900]

\* The bracket rows with the base tax of the top single bracket entered as
\* 17168.00 instead of 17168.50.
TaxBracketsBadBase ==
    [single |->
        << [min |-> 0, max |-> 11600, rate |-> 10, base |-> 0],
           [min |-> 11600, max |-> 47150, rate |-> 12, base |-> 116000],
           [min |-> 47150, max |-> 100525, rate |-> 22, base |-> 542600],
           [min |-> 100525, max |-> OpenEndedMax, rate |-> 24, base |-> 1716800] >>,
     married_filing_jointly |->
        << [min |-> 0, max |-> 23200, rate |-> 10, base |-> 0],
           [min |-> 23200, max |-> 94300, rate |-> 12, base |-> 232000],
           [min |-> 94300, max |-> 201050, rate |-> 22, base |-> 1085200],
           [min |-> 201050, max |-> OpenEndedMax, rate |-> 24, base |-> 3433700] >>,
     head_of_household |->
        << [min |-> 0, max |-> 16550, rate |-> 10, base |-> 0],
           [min |-> 16550, max |-> 63100, rate |-> 12, base |-> 165500],
           [min |-> 63100, max |-> 100500, rate |-> 22, base |-> 724100],
           [min |-> 100500, max |-> OpenEndedMax, rate |-> 24, base |-> 1546900] >>]

\* The tax_bracket_rule rows of year 2024: min and max in dollars, rate in
\* percent, base (bracket_base_tax) in cents.
TaxBrackets ==
    [single |->
        << [min |-> 0, max |-> 11600, rate |-> 10, base |-> 0],
           [min |-> 11600, max |-> 47150, rate |-> 12, base |-> 116000],
           [min |-> 47150, max |-> 100525, rate |-> 22, base |-> 542600],
           [min |-> 100525, max |-> OpenEndedMax, rate |-> 24, base |-> 1716850] >>,
     married_filing_jointly |->
        << [min |-> 0, max |-> 23200, rate |-> 10, base |-> 0],
           [min |-> 23200, max |-> 94300, rate |-> 12, base |-> 232000],
           [min |-> 94300, max |-> 201050, rate |-> 22, base |-> 1085200],
           [min |-> 201050, max |-> OpenEndedMax, rate |-> 24, base |-> 3433700] >>,
     head_of_household |->
        << [min |-> 0, max |-> 16550, rate |-> 10, base |-> 0],
           [min |-> 16550, max |-> 63100, rate |-> 12, base |-> 165500],
           [min |-> 63100, max |-> 100500, rate |-> 22, base |-> 724100],
           [min |-> 100500, max |-> OpenEndedMax, rate |-> 24, base |-> 1546900] >>]

\* income_type rows inserted by insert_form_metadata.
IncomeTypes == << [id |-> "income-1099", name |-> "1099 Income"],
                  [id |-> "income-w2", name |-> "W-2 Wages"] >>

\* itemized_deduction_type rows: display name and deduction_limit.
ItemizedDeductionTypes ==
    << [display |-> "State/Local Taxes", limit |-> 10000],
       [display |-> "Mortgage Interest", limit |-> OpenEndedMax],
       [display |-> "Charitable Contributions", limit |-> OpenEndedMax] >>

\* The form_field rows inserted by insert_form_metadata.
FormFields ==
    [id \in {"1040-line-9", "1040-line-11", "1040-line-12", "1040-line-15",
             "1040-line-16"} |->
        CASE id = "1040-line-9" ->
                [name |-> "Total Income", function |-> "calculate_total_income"]
          [] id = "1040-line-11" ->
                [name |-> "Adjusted Gross Income", function |-> "calculate_agi"]
          [] id = "1040-line-12" ->
                [name |-> "Standard Deduction", function |-> "get_standard_deduction"]
          [] id = "1040-line-15" ->
                [name |-> "Taxable Income", function |-> "calculate_taxable_income"]
          [] id = "1040-line-16" ->
                [name |-> "Federal Income Tax", function |-> "calculate_federal_tax"]]

\* The field_dependency rows inserted by insert_form_metadata, as
\* (dependent_field, source_field) pairs.
FormDependencyRows ==
    << <<"1040-line-11", "1040-line-9">>, <<"1040-line-15", "1040-line-11">>,
       <<"1040-line-15", "1040-line-12">>, <<"1040-line-16", "1040-line-15">> >>

(***************************************************************************)
(* Sequence helpers                                                        *)
(***************************************************************************)
RECURSIVE SumAmounts(_)
SumAmounts(s) == IF s = <<>> THEN 0 ELSE Head(s).amount + SumAmounts(Tail(s))

RECURSIVE Flatten(_)
Flatten(ss) == IF ss = <<>> THEN <<>> ELSE Head(ss) \o Flatten(Tail(ss))

Range(s) == {s[i] : i \in 1..Len(s)}

(***************************************************************************)
(* TypeQL functions of create_true_semantic_schema                         *)
(***************************************************************************)
\* sum($amt) over the taxpayer's income_source relations.
calculate_total_income(d) == SumAmounts(d.income_sources)

calculate_agi(d) == calculate_total_income(d)

get_standard_deduction(st) ==
    IF st \in DOMAIN StandardDeductions THEN {StandardDeductions[st]} ELSE {}

\* let $taxable = $agi - $ded_attr; $taxable > 0; return first $taxable;
calculate_taxable_income(d) ==
    {calculate_agi(d) - ded : ded \in
        {x \in get_standard_deduction(d.status) : calculate_agi(d) - x > 0}}

\* $income >= $min; $income <= $max; return first ...  (both bounds inclusive)
get_tax_bracket(income, st) ==
    IF st \in DOMAIN TaxBrackets
    THEN {b \in Range(TaxBrackets[st]) : income >= b.min /\ income <= b.max}
    ELSE {}

\* let $tax = $base + (($taxable - $min) * $rate);   (in cents)
calculate_federal_tax(d) ==
    UNION {{b.base + (t - b.min) * b.rate : b \in get_tax_bracket(t, d.status)} :
              t \in calculate_taxable_income(d)}

(***************************************************************************)
(* Metadata loaders                                                        *)
(***************************************************************************)
SourcesOf(rows, id) ==
    LET mine == SelectSeq(rows, LAMBDA r : r[1] = id)
    IN  [i \in 1..Len(mine) |-> mine[i][2]]

DependentsOf(rows, id) ==
    LET mine == SelectSeq(rows, LAMBDA r : r[2] = id)
    IN  [i \in 1..Len(mine) |-> mine[i][1]]

\* PurelyGenericTreeBuilder.load_metadata: a dependency row is kept when its
\* dependent field is loaded; the source field is not looked at.
load_metadata(ids, rows) ==
    [id \in ids |->
        [name |-> FormFields[id].name,
         function |-> FormFields[id].function,
         dependencies |-> SourcesOf(rows, id)]]

\* get_field_dependencies: a dependency row is kept only when both fields are
\* loaded.
get_field_dependencies(ids, rows) ==
    LET kept == SelectSeq(rows, LAMBDA r : r[1] \in ids /\ r[2] \in ids)
    IN  [id \in ids |->
            [name |-> FormFields[id].name,
             function |-> FormFields[id].function,
             dependencies |-> SourcesOf(kept, id),
             dependents |-> DependentsOf(kept, id)]]

\* function_specs.get(name, {}): "absent" is a missing key, "none" a stored None.
NoSpec == [type |-> "", display_pattern |-> "absent", query_pattern |-> ""]

FuncSpec(fn) == IF fn \in DOMAIN function_specs THEN function_specs[fn] ELSE NoSpec

\* get_taxpayer_calculations: the rows of the values query.  There is a row
\* only when the filing exists and every function called by the query
\* returns one.
get_taxpayer_calculations(d) ==
    IF ~d.filing THEN {}
    ELSE {[present |-> TRUE, status |-> d.status,
           total_income |-> calculate_total_income(d), agi |-> calculate_agi(d),
           deduction |-> ded, taxable |-> t, tax |-> x] :
            <<ded, t, x>> \in get_standard_deduction(d.status)
                              \X calculate_taxable_income(d)
                              \X calculate_federal_tax(d)}

NoCalculations == [present |-> FALSE, status |-> "", total_income |-> 0, agi |-> 0,
                   deduction |-> 0, taxable |-> 0, tax |-> 0]

NoContext == [present |-> FALSE, status_type |-> "", status_display |-> ""]

\* GenericTaxpayerTreeBuilder.load_taxpayer_context
load_taxpayer_context(d) ==
    IF d.filing
    THEN [present |-> TRUE, status_type |-> d.status,
          status_display |-> FilingStatusDisplay[d.status]]
    ELSE NoContext

\* GenericTaxpayerTreeBuilder.load_field_values: the values are stored under
\* five literal field ids.
load_field_values(c) ==
    IF c.present
    THEN [id \in {"1040-line-9", "1040-line-11", "1040-line-12", "1040-line-15",
                  "1040-line-16"} |->
            CASE id = "1040-line-9" -> c.total_income
              [] id = "1040-line-11" -> c.agi
              [] id = "1040-line-12" -> c.deduction
              [] id = "1040-line-15" -> c.taxable
              [] id = "1040-line-16" -> c.tax]
    ELSE [id \in {} |-> 0]

(***************************************************************************)
(* Output lines                                                            *)
(***************************************************************************)
\* The value of a line that shows no amount.
NoValue == 0 - 1

\* conn: "last" is the corner connector, "mid" the tee connector, "bar" a
\* lone vertical bar, "none" no connector (the root line).
Line(ind, conn, kind, id, text, value) ==
    [ind |-> ind, conn |-> conn, kind |-> kind, id |-> id, text |-> text,
     value |-> value]

Bar(ind) == Line(ind, "bar", "bar", "", "", NoValue)

Connector(is_last) == IF is_last THEN "last" ELSE "mid"

CircularLine(indent) == Line(indent, "last", "circular", "", "(circular reference)", NoValue)

\* what one call contributes before its dependency loop
Head0(lines, vis) ==
    [lines |-> lines, visited |-> vis, push |-> FALSE, raised |-> FALSE,
     queries |-> <<>>,
     frame |-> [id |-> "", next_indent |-> <<>>, i |-> 1, has_additional |-> FALSE,
                additional |-> <<>>]]

NewFrame(id, next_indent, has_additional, additional) ==
    [id |-> id, next_indent |-> next_indent, i |-> 1,
     has_additional |-> has_additional, additional |-> additional]

\* s[:-4] + "    " on an indent
ReplaceLastUnit(ind) ==
    (IF ind = <<>> THEN <<>> ELSE SubSeq(ind, 1, Len(ind) - 1)) \o <<"S">>

(***************************************************************************)
(* PurelyGenericTreeBuilder (tax_form_calc_tree.py)                        *)
(***************************************************************************)
get_aggregated_items(spec) ==
    IF spec.query_pattern = "income_type"
    THEN [items |-> db.income_types, queries |-> <<"income_type">>]
    ELSE [items |-> <<>>, queries |-> <<>>]

\* The rows of the standard_deduction_rule query of one year.
StandardDeductionRows ==
    << [status |-> "single"], [status |-> "married_filing_jointly"],
       [status |-> "head_of_household"] >>

get_lookup_results(spec) ==
    IF spec.query_pattern = "standard_deduction_rule"
    THEN [results |-> StandardDeductionRows, queries |-> <<"standard_deduction_rule">>]
    ELSE [results |-> <<>>, queries |-> <<>>]

\* func_spec.get('display_pattern', default).format(...) raises when the spec
\* holds None for the pattern.
FormatRaises(spec) == spec.display_pattern = "none"

display_items(items, indent) ==
    <<Bar(indent)>> \o
    Flatten([i \in 1..Len(items) |->
        <<Line(indent, Connector(i = Len(items)), "item", "", items[i].name, NoValue)>>
        \o (IF i # Len(items) THEN <<Bar(indent)>> ELSE <<>>)])

display_lookup_results(results, indent) ==
    <<Bar(indent)>> \o
    [i \in 1..Len(results) |->
        Line(indent, Connector(i = Len(results)), "lookup", "",
             FilingStatusDisplay[results[i].status],
             StandardDeductions[results[i].status])]

\* sort $type asc, $min asc
BracketStatusesSorted == <<"head_of_household", "married_filing_jointly", "single">>

BracketLines(ind, st) ==
    [i \in 1..Len(TaxBrackets[st]) |->
        Line(ind, Connector(i = Len(TaxBrackets[st])), "bracket", "", st,
             TaxBrackets[st][i].min)]

display_tax_brackets(indent) ==
    LET in2 == indent \o <<"S", "S">>
        n == Len(BracketStatusesSorted)
    IN  << Bar(indent),
           Line(indent, "last", "extra", "", "Tax Rate Lookup", NoValue),
           Line(indent \o <<"S">>, "last", "function", "", "get_tax_bracket", NoValue),
           Bar(in2) >> \o
        Flatten([j \in 1..n |->
            <<Line(in2, Connector(j = n), "status", "",
                   BracketStatusesSorted[j], NoValue)>>
            \o BracketLines(in2 \o <<IF j = n THEN "S" ELSE "B">>,
                            BracketStatusesSorted[j])
            \o (IF j # n THEN <<Bar(in2)>> ELSE <<>>)])

\* get_additional_function_content without its test of the query pattern:
\* the brackets are queried and listed for every function.
get_additional_function_content_unguarded(fn, indent) ==
    [content |-> display_tax_brackets(indent), is_none |-> FALSE,
     queries |-> <<"tax_bracket_rule">>]

\* get_additional_function_content: None unless the function's spec has the
\* tax_bracket_rule query pattern.
get_additional_function_content(fn, indent) ==
    IF FuncSpec(fn).query_pattern = "tax_bracket_rule"
    THEN [content |-> display_tax_brackets(indent), is_none |-> FALSE,
          queries |-> <<"tax_bracket_rule">>]
    ELSE [content |-> <<>>, is_none |-> TRUE, queries |-> <<>>]

\* The node lines of build_tree and the indent below them.
GenericNode(id, indent, is_last, name, fn, value) ==
    IF indent = <<>>
    THEN [lines |-> << Line(<<>>, "none", "field", id, name, value),
                       Line(<<>>, "last", "function", id, fn, NoValue) >>,
          next_indent |-> <<"S">>]
    ELSE LET func_indent == indent \o <<IF is_last THEN "S" ELSE "B">>
         IN  [lines |-> << Line(indent, Connector(is_last), "field", id, name, value),
                           Line(func_indent, "last", "function", id, fn, NoValue) >>,
              next_indent |-> func_indent \o <<"S">>]

\* The visited test of the PurelyGenericTreeBuilder with the test dropped.
PureSeenNever(id, vis) == FALSE

PureSeen(id, vis) == id \in vis

\* PurelyGenericTreeBuilder.build_tree up to its dependency loop.
PureEnter(id, indent, is_last, vis) ==
    IF PureSeen(id, vis) THEN Head0(<<CircularLine(indent)>>, vis)
    ELSE IF id \notin DOMAIN fields THEN Head0(<<>>, vis \cup {id})
    ELSE
    LET field == fields[id]
        node == GenericNode(id, indent, is_last, field.name, field.function, NoValue)
        spec == FuncSpec(field.function)
        agg == get_aggregated_items(spec)
        look == get_lookup_results(spec)
        add == get_additional_function_content(field.function, node.next_indent)
        h == Head0(node.lines, vis \cup {id})
    IN
    IF spec.type = "aggregation" /\ agg.items # <<>>
    THEN IF FormatRaises(spec)
         THEN [h EXCEPT !.raised = TRUE, !.queries = agg.queries]
         ELSE [h EXCEPT !.lines = node.lines \o display_items(agg.items, node.next_indent),
                        !.queries = agg.queries]
    ELSE IF spec.type = "lookup" /\ look.results # <<>> /\ FormatRaises(spec)
    THEN [h EXCEPT !.raised = TRUE, !.queries = look.queries]
    ELSE
    LET q1 == IF spec.type = "aggregation" THEN agg.queries
              ELSE IF spec.type = "lookup" THEN look.queries ELSE <<>>
        shown == IF spec.type = "lookup" /\ look.results # <<>>
                 THEN display_lookup_results(look.results, node.next_indent)
                 ELSE <<>>
    IN  [h EXCEPT !.lines = node.lines \o shown
                            \o (IF field.dependencies # <<>>
                                THEN <<Bar(node.next_indent)>> ELSE <<>>),
                  !.push = TRUE,
                  !.queries = q1 \o add.queries,
                  !.frame = NewFrame(id, node.next_indent, ~add.is_none, add.content)]

\* build_tree after its dependency loop: the additional content, if any.
PureExit(f) == [lines |-> f.additional, queries |-> <<>>]

(***************************************************************************)
(* GenericTaxpayerTreeBuilder (taxpayer_calc_tree.py)                      *)
(***************************************************************************)
get_taxpayer_aggregated_items(spec) ==
    IF spec.query_pattern = "income_type"
    THEN [items |-> db.income_sources, queries |-> <<"income_source">>]
    ELSE [items |-> <<>>, queries |-> <<>>]

get_taxpayer_lookup_results(spec) ==
    IF spec.query_pattern = "standard_deduction_rule" /\ taxpayer_context.present
    THEN [results |->
            IF taxpayer_context.status_type \in DOMAIN StandardDeductions
            THEN <<[status |-> taxpayer_context.status_type]>> ELSE <<>>,
          queries |-> <<"standard_deduction_rule">>]
    ELSE [results |-> <<>>, queries |-> <<>>]

\* A bar follows every item but the last two.
display_taxpayer_items(items, indent) ==
    <<Bar(indent)>> \o
    Flatten([i \in 1..Len(items) |->
        <<Line(indent, Connector(i = Len(items)), "item", "", items[i].name,
               items[i].amount)>>
        \o (IF i # Len(items) /\ i < Len(items) - 1 THEN <<Bar(indent)>> ELSE <<>>)])

display_taxpayer_lookup_results(results, indent) ==
    [i \in 1..Len(results) |->
        Line(indent, "last", "lookup", "", FilingStatusDisplay[results[i].status],
             StandardDeductions[results[i].status])]

\* The first bracket, by ascending bracket_min, that contains the amount.
ApplicableBracket(st, taxable) ==
    LET bs == IF st \in DOMAIN TaxBrackets THEN TaxBrackets[st] ELSE <<>>
        hits == {i \in 1..Len(bs) : bs[i].min <= taxable /\ taxable <= bs[i].max}
    IN  IF hits = {} THEN <<>>
        ELSE <<bs[CHOOSE i \in hits : \A j \in hits : i <= j]>>

AppliedBracketLines(ind, found, display) ==
    IF found = <<>> THEN <<>>
    ELSE << Line(ind \o <<"S">>, "last", "function", "", "get_tax_bracket", found[1].base),
            Bar(ind \o <<"S", "S">>),
            Line(ind \o <<"S", "S">>, "last", "status", "", display, NoValue),
            Line(ind \o <<"S", "S", "S">>, "last", "bracket", "", "APPLIED",
                 found[1].min) >>

display_taxpayer_tax_bracket(indent) ==
    IF "1040-line-15" \notin DOMAIN taxpayer_values
    THEN [content |-> <<>>, is_none |-> TRUE, queries |-> <<>>]
    ELSE [content |->
            << Bar(indent), Line(indent, "last", "extra", "", "Tax Rate Lookup", NoValue) >>
            \o AppliedBracketLines(indent,
                    ApplicableBracket(taxpayer_context.status_type,
                                      taxpayer_values["1040-line-15"]),
                    taxpayer_context.status_display),
          is_none |-> FALSE,
          queries |-> <<"tax_bracket_rule">>]

get_taxpayer_additional_content(fn, indent) ==
    IF FuncSpec(fn).query_pattern = "tax_bracket_rule" /\ taxpayer_context.present
    THEN display_taxpayer_tax_bracket(indent)
    ELSE [content |-> <<>>, is_none |-> TRUE, queries |-> <<>>]

TaxpayerValue(id) ==
    IF id \in DOMAIN taxpayer_values THEN taxpayer_values[id] ELSE NoValue

\* GenericTaxpayerTreeBuilder.build_tree up to its dependency loop.
TaxpayerEnter(id, indent, is_last, vis) ==
    IF id \in vis THEN Head0(<<CircularLine(indent)>>, vis)
    ELSE IF id \notin DOMAIN fields THEN Head0(<<>>, vis \cup {id})
    ELSE
    LET field == fields[id]
        node == GenericNode(id, indent, is_last, field.name, field.function,
                            TaxpayerValue(id))
        spec == FuncSpec(field.function)
        agg == get_taxpayer_aggregated_items(spec)
        look == get_taxpayer_lookup_results(spec)
        add == get_taxpayer_additional_content(field.function, node.next_indent)
        h == Head0(node.lines, vis \cup {id})
    IN
    IF spec.type = "aggregation" /\ agg.items # <<>>
    THEN [h EXCEPT !.lines = node.lines
                             \o display_taxpayer_items(agg.items, node.next_indent),
                   !.queries = agg.queries]
    ELSE
    LET q1 == IF spec.type = "aggregation" THEN agg.queries
              ELSE IF spec.type = "lookup" THEN look.queries ELSE <<>>
        shown == IF spec.type = "lookup"
                 THEN display_taxpayer_lookup_results(look.results, node.next_indent)
                 ELSE <<>>
    IN  [h EXCEPT !.lines = node.lines \o shown
                            \o (IF field.dependencies # <<>>
                                THEN <<Bar(node.next_indent)>> ELSE <<>>),
                  !.push = TRUE,
                  !.queries = q1 \o add.queries,
                  !.frame = NewFrame(id, node.next_indent, ~add.is_none, add.content)]

TaxpayerExit(f) == [lines |-> f.additional, queries |-> <<>>]

(***************************************************************************)
(* build_generic_year_tree (query_dependency_tree.py)                      *)
(***************************************************************************)
\* The node lines of the two functions of query_dependency_tree.py: the root
\* is always titled "Federal Income Tax".
YearNode(id, indent, is_last, name, fn, value) ==
    IF indent = <<>>
    THEN [lines |-> << Line(<<>>, "none", "field", id, "Federal Income Tax", value),
                       Line(<<>>, "last", "function", id, fields[id].function, NoValue) >>,
          next_indent |-> <<"S">>]
    ELSE LET unit == IF is_last THEN "S" ELSE "B"
         IN  [lines |-> << Line(indent, Connector(is_last), "field", id, name, value),
                           Line(indent \o <<unit>>, "last", "function", id, fn, NoValue) >>,
              next_indent |-> indent \o <<unit, "S">>]

\* The four income types the year view lists, whatever the database holds.
PossibleIncomeTypes == <<"W-2 Wages", "1099 Income", "Capital Gains", "Business Income">>

PossibleIncomeLines(indent) ==
    LET n == Len(PossibleIncomeTypes)
    IN  <<Bar(indent)>> \o
        Flatten([i \in 1..n |->
            <<Line(indent, Connector(i = n), "item", "", PossibleIncomeTypes[i], NoValue)>>
            \o (IF i # n /\ i < n - 1 THEN <<Bar(indent)>> ELSE <<>>)])

StatusOrder == <<"single", "married_filing_jointly", "head_of_household">>

\* get_itemized_deductions: one query for the options, one limit query each.
ItemizedQueries ==
    <<"itemized_deduction_option">>
    \o [i \in 1..Len(ItemizedDeductionTypes) |-> "deduction_limit"]

DeductionOptionLines(indent) ==
    LET sorted == SelectSeq(StatusOrder, LAMBDA st : st \in DOMAIN StandardDeductions)
        m == Len(ItemizedDeductionTypes)
    IN  << Bar(indent),
           Line(indent, "mid", "extra", "", "[OPTION A] Standard Deduction", NoValue) >>
        \o [i \in 1..Len(sorted) |->
              Line(indent \o <<"B">>, Connector(i = Len(sorted)), "lookup", "",
                   FilingStatusDisplay[sorted[i]], StandardDeductions[sorted[i]])]
        \o << Bar(indent),
              Line(indent, "last", "extra", "", "[OPTION B] Itemized Deductions", NoValue) >>
        \o [i \in 1..m |->
              Line(indent \o <<"S">>, Connector(i = m), "lookup", "",
                   ItemizedDeductionTypes[i].display,
                   IF ItemizedDeductionTypes[i].limit < OpenEndedMax
                   THEN ItemizedDeductionTypes[i].limit ELSE NoValue)]

\* build_generic_year_tree up to its dependency loop.
YearEnter(id, indent, is_last, vis) ==
    IF id \in vis THEN Head0(<<CircularLine(indent)>>, vis)
    ELSE IF id \notin DOMAIN fields THEN Head0(<<>>, vis \cup {id})
    ELSE
    LET field == fields[id]
        is12 == id = "1040-line-12"
        node == YearNode(id, indent, is_last,
                         IF is12 THEN "Deductions" ELSE field.name,
                         IF is12 THEN "calculate_deductions" ELSE field.function,
                         NoValue)
        h == Head0(node.lines, vis \cup {id})
        isIncome == field.function = "calculate_total_income"
    IN
    IF isIncome /\ db.income_types # <<>>
    THEN [h EXCEPT !.lines = node.lines \o PossibleIncomeLines(node.next_indent),
                   !.queries = <<"income_type">>]
    ELSE IF ~isIncome /\ is12
    THEN [h EXCEPT !.lines = node.lines \o DeductionOptionLines(node.next_indent),
                   !.queries = <<"standard_deduction_rule">> \o ItemizedQueries]
    ELSE [h EXCEPT !.push = TRUE,
                   !.queries = IF isIncome THEN <<"income_type">> ELSE <<>>,
                   !.frame = NewFrame(id, node.next_indent,
                                      field.function = "calculate_federal_tax", <<>>)]

\* The statuses of StatusOrder that have brackets, each with its heading and
\* its brackets.
AllBracketLines(ind) ==
    LET avail == SelectSeq(StatusOrder, LAMBDA st : st \in DOMAIN TaxBrackets)
        n == Len(avail)
    IN  Flatten([j \in 1..n |->
            <<Line(ind, Connector(j = n), "status", "", avail[j], NoValue)>>
            \o BracketLines(ind \o <<IF j = n THEN "S" ELSE "B">>, avail[j])
            \o (IF j # n THEN <<Bar(ind)>> ELSE <<>>)])

\* build_generic_year_tree after its dependency loop: the tax rate lookup of
\* calculate_federal_tax, with one get_filing_status_display query a status.
YearExit(f) ==
    IF f.has_additional
    THEN LET base == ReplaceLastUnit(f.next_indent)
         IN  [lines |-> << Bar(base),
                           Line(base, "last", "extra", "", "Tax Rate Lookup", NoValue),
                           Line(base \o <<"S">>, "last", "function", "", "get_tax_rate",
                                NoValue),
                           Bar(base \o <<"S", "S">>) >>
                        \o AllBracketLines(base \o <<"S", "S">>),
              queries |-> <<"tax_bracket_rule">>
                          \o [j \in 1..Len(SelectSeq(StatusOrder,
                                  LAMBDA st : st \in DOMAIN TaxBrackets)) |-> "filing_status"]]
    ELSE [lines |-> <<>>, queries |-> <<>>]

(***************************************************************************)
(* build_taxpayer_specific_tree (query_dependency_tree.py)                 *)
(***************************************************************************)
\* The value shown beside a field: keyed on five literal field ids.
SpecificValue(id) ==
    IF ~calculations.present THEN NoValue
    ELSE CASE id = "1040-line-16" -> calculations.tax
           [] id = "1040-line-15" -> calculations.taxable
           [] id = "1040-line-11" -> calculations.agi
           [] id = "1040-line-9" -> calculations.total_income
           [] id = "1040-line-12" -> calculations.deduction
           [] OTHER -> NoValue

\* build_taxpayer_specific_tree up to its dependency loop.
SpecificEnter(id, indent, is_last, vis) ==
    IF id \in vis THEN Head0(<<CircularLine(indent)>>, vis)
    ELSE IF id \notin DOMAIN fields THEN Head0(<<>>, vis \cup {id})
    ELSE
    LET field == fields[id]
        node == YearNode(id, indent, is_last, field.name, field.function,
                         SpecificValue(id))
        h == Head0(node.lines, vis \cup {id})
        isIncome == field.function = "calculate_total_income"
    IN
    IF isIncome /\ db.income_sources # <<>>
    THEN [h EXCEPT !.lines = node.lines
                             \o display_taxpayer_items(db.income_sources, node.next_indent),
                   !.queries = <<"income_source">>]
    ELSE IF ~isIncome /\ field.function = "get_standard_deduction" /\ calculations.present
    THEN [h EXCEPT !.lines = node.lines
                      \o <<Line(node.next_indent, "last", "lookup", "",
                                IF calculations.status \in DOMAIN FilingStatusDisplay
                                THEN FilingStatusDisplay[calculations.status]
                                ELSE calculations.status,
                                calculations.deduction)>>,
                   !.queries = <<"filing_status">>]
    ELSE [h EXCEPT !.push = TRUE,
                   !.queries = IF isIncome THEN <<"income_source">> ELSE <<>>,
                   !.frame = NewFrame(id, node.next_indent,
                                      field.function = "calculate_federal_tax", <<>>)]

\* build_taxpayer_specific_tree after its dependency loop.
SpecificExit(f) ==
    IF f.has_additional /\ calculations.present
    THEN LET base == ReplaceLastUnit(f.next_indent)
             found == ApplicableBracket(calculations.status, calculations.taxable)
         IN  [lines |-> IF found = <<>> THEN <<>>
                        ELSE << Bar(base),
                                Line(base, "last", "extra", "", "Tax Rate Lookup", NoValue) >>
                             \o AppliedBracketLines(base, found, calculations.status),
              queries |-> <<"tax_bracket_rule">>]
    ELSE [lines |-> <<>>, queries |-> <<>>]

(***************************************************************************)
(* One top-level rendering call as a machine over the call stack           *)
(***************************************************************************)
Builders == {"pure", "taxpayer", "year", "specific"}

Enter(b, id, indent, is_last, vis) ==
    CASE b = "pure" -> PureEnter(id, indent, is_last, vis)
      [] b = "taxpayer" -> TaxpayerEnter(id, indent, is_last, vis)
      [] b = "year" -> YearEnter(id, indent, is_last, vis)
      [] b = "specific" -> SpecificEnter(id, indent, is_last, vis)

Exit(b, f) ==
    CASE b = "pure" -> PureExit(f)
      [] b = "taxpayer" -> TaxpayerExit(f)
      [] b = "year" -> YearExit(f)
      [] b = "specific" -> SpecificExit(f)

\* The indent handed to a child: the two functions of query_dependency_tree.py
\* rebuild it from next_indent and print a bar before every child.
ChildIndent(b, f) ==
    IF b \in {"year", "specific"} THEN ReplaceLastUnit(f.next_indent) ELSE f.next_indent

BeforeChild(b, f) ==
    IF b \in {"year", "specific"} THEN <<Bar(ReplaceLastUnit(f.next_indent))>> ELSE <<>>

\* is_last_dep / is_last_child of the dependency loops
IsLastDep(f, n) == f.i = n /\ ~f.has_additional

\* The effect of entering a call: the caller's frames are `below`.
Call(b, id, indent, is_last, vis, below, pre) ==
    LET h == Enter(b, id, indent, is_last, vis)
    IN  IF h.raised
        THEN /\ status' = "raised"
             /\ stack' = <<>>
             /\ tree' = <<>>
             /\ visited' = h.visited
             /\ queries' = queries \o h.queries
        ELSE /\ tree' = tree \o pre \o h.lines
             /\ visited' = h.visited
             /\ queries' = queries \o h.queries
             /\ stack' = below \o (IF h.push THEN <<h.frame>> ELSE <<>>)
             /\ status' = IF stack' = <<>> THEN "returned" ELSE "running"

\* build_tree(root) / build_generic_year_tree(fields, root, ...) /
\* build_taxpayer_specific_tree(fields, root, ...) called from outside.
TopCall ==
    /\ status = "idle"
    /\ Call(builder, root, <<>>, TRUE, {}, <<>>, <<>>)
    /\ UNCHANGED <<builder, root, fields, function_specs, db, taxpayer_context,
                   taxpayer_values, calculations>>
    /\ UNCHANGED mainVars
    /\ UNCHANGED taxVars
    /\ UNCHANGED scriptVars

\* The dependency loop written as "while deps: dep = deps.pop(0)": the call
\* for the next dependency removes it from the field's dependency list.
DescendConsuming ==
    /\ status = "running"
    /\ stack # <<>>
    /\ LET f == stack[Len(stack)]
           deps == fields[f.id].dependencies
       IN  /\ f.i <= Len(deps)
           /\ Call(builder, deps[f.i], ChildIndent(builder, f), Len(deps) = 1,
                   visited, stack, BeforeChild(builder, f))
           /\ fields' = [fields EXCEPT ![f.id].dependencies = Tail(deps)]
    /\ UNCHANGED <<builder, root, function_specs, db, taxpayer_context,
                   taxpayer_values, calculations>>
    /\ UNCHANGED mainVars
    /\ UNCHANGED taxVars
    /\ UNCHANGED scriptVars

\* One iteration of the dependency loop: the recursive call for the next
\* dependency.
Descend ==
    /\ status = "running"
    /\ stack # <<>>
    /\ LET f == stack[Len(stack)]
           deps == fields[f.id].dependencies
       IN  /\ f.i <= Len(deps)
           /\ Call(builder, deps[f.i], ChildIndent(builder, f), IsLastDep(f, Len(deps)),
                   visited, [stack EXCEPT ![Len(stack)].i = f.i + 1],
                   BeforeChild(builder, f))
    /\ UNCHANGED <<builder, root, fields, function_specs, db, taxpayer_context,
                   taxpayer_values, calculations>>
    /\ UNCHANGED mainVars
    /\ UNCHANGED taxVars
    /\ UNCHANGED scriptVars

\* The dependency loop is over: the call appends its trailing content and
\* returns its string to the caller.
Return ==
    /\ status = "running"
    /\ stack # <<>>
    /\ LET f == stack[Len(stack)]
           e == Exit(builder, f)
       IN  /\ f.i > Len(fields[f.id].dependencies)
           /\ tree' = tree \o e.lines
           /\ queries' = queries \o e.queries
           /\ stack' = SubSeq(stack, 1, Len(stack) - 1)
           /\ status' = IF Len(stack) = 1 THEN "returned" ELSE "running"
    /\ UNCHANGED <<builder, root, fields, function_specs, db, taxpayer_context,
                   taxpayer_values, calculations, visited>>
    /\ UNCHANGED mainVars
    /\ UNCHANGED taxVars
    /\ UNCHANGED scriptVars

(***************************************************************************)
(* Inputs of the rendering specification                                   *)
(***************************************************************************)
\* The form fields loaded in the rendering specification, and a field id
\* that dependency rows may name although no loaded field has it.
TreeIds == {"1040-line-16", "1040-line-12", "1040-line-9"}
UnknownId == "1040-line-11"

\* The order in which the dependency query returns its rows, and its reverse.
PairOrder ==
    << <<"1040-line-16", "1040-line-16">>, <<"1040-line-16", "1040-line-12">>,
       <<"1040-line-16", "1040-line-9">>, <<"1040-line-16", "1040-line-11">>,
       <<"1040-line-12", "1040-line-16">>, <<"1040-line-12", "1040-line-12">>,
       <<"1040-line-12", "1040-line-9">>, <<"1040-line-12", "1040-line-11">>,
       <<"1040-line-9", "1040-line-16">>, <<"1040-line-9", "1040-line-12">>,
       <<"1040-line-9", "1040-line-9">>, <<"1040-line-9", "1040-line-11">> >>

Reverse(s) == [i \in 1..Len(s) |-> s[Len(s) + 1 - i]]

RowSets == {S \in SUBSET Range(PairOrder) : Cardinality(S) <= MaxRows}

RowSeqs ==
    {SelectSeq(PairOrder, LAMBDA p : p \in S) : S \in RowSets}
    \cup {Reverse(SelectSeq(PairOrder, LAMBDA p : p \in S)) : S \in RowSets}

\* function_spec rows: the function types of the schema, the query patterns
\* the builders test for, and the display pattern present or absent.
FunctionSpecsWith(pattern) ==
    [fn \in {"calculate_total_income", "get_standard_deduction",
             "calculate_federal_tax"} |->
        CASE fn = "calculate_total_income" ->
                [type |-> "aggregation", display_pattern |-> pattern,
                 query_pattern |-> "income_type"]
          [] fn = "get_standard_deduction" ->
                [type |-> "lookup", display_pattern |-> pattern,
                 query_pattern |-> "standard_deduction_rule"]
          [] fn = "calculate_federal_tax" ->
                [type |-> "calculation", display_pattern |-> pattern,
                 query_pattern |-> "tax_bracket_rule"]]

NoFunctionSpecs == [fn \in {} |-> NoSpec]

IncomeSourceOptions ==
    { <<>>,
      << [name |-> "W-2 Wages", amount |-> 10000] >>,
      << [name |-> "W-2 Wages", amount |-> 60000],
         [name |-> "1099 Income", amount |-> 15000],
         [name |-> "W-2 Wages", amount |-> 10000] >> }

Database(types, filing, st, sources, ids, rows) ==
    [income_types |-> types, filing |-> filing, status |-> st,
     income_sources |-> sources, field_ids |-> ids, dependency_rows |-> rows]

\* next(tx.query(...).resolve(), None): any row of the result, or None.
FirstOrNone(rows, none) == IF rows = {} THEN {none} ELSE rows

IdleMain ==
    /\ args = [compare |-> FALSE, ssn |-> FALSE]
    /\ pc = "off"
    /\ printed = <<>>
    /\ driver = "none"

IdleTax ==
    /\ taxable_income = [called |-> FALSE, rows |-> {}]
    /\ federal_tax = [called |-> FALSE, rows |-> {}]

\* No setup or maintenance script runs.
IdleScripts ==
    /\ script = "none"
    /\ at = 0
    /\ connection = "none"
    /\ open_txs = <<>>
    /\ databases = [n \in {} |-> 0]
    /\ log = <<>>
    /\ outcome = "off"
    /\ runs = 0

IdleCall ==
    /\ stack = <<>>
    /\ visited = {}
    /\ tree = <<>>
    /\ queries = <<>>
    /\ status = "idle"

\* A PurelyGenericTreeBuilder after __init__.
InitPure ==
    /\ builder = "pure"
    /\ \E types \in {<<>>, IncomeTypes}, pattern \in {"set", "none"}, rows \in RowSeqs :
          /\ db = Database(types, FALSE, "single", <<>>, TreeIds, rows)
          /\ function_specs = FunctionSpecsWith(pattern)
    /\ fields = load_metadata(db.field_ids, db.dependency_rows)
    /\ taxpayer_context = NoContext
    /\ taxpayer_values = load_field_values(NoCalculations)
    /\ calculations = NoCalculations

\* A GenericTaxpayerTreeBuilder after __init__.
InitTaxpayer ==
    /\ builder = "taxpayer"
    /\ \E filing \in BOOLEAN, sources \in IncomeSourceOptions, rows \in RowSeqs :
          db = Database(IncomeTypes, filing, "single", sources, TreeIds, rows)
    /\ fields = load_metadata(db.field_ids, db.dependency_rows)
    /\ function_specs = FunctionSpecsWith("set")
    /\ taxpayer_context = load_taxpayer_context(db)
    /\ \E c \in FirstOrNone(get_taxpayer_calculations(db), NoCalculations) :
          taxpayer_values = load_field_values(c)
    /\ calculations = NoCalculations

\* The arguments of build_generic_year_tree.
InitYear ==
    /\ builder = "year"
    /\ \E types \in {<<>>, IncomeTypes}, rows \in RowSeqs :
          db = Database(types, FALSE, "single", <<>>, TreeIds, rows)
    /\ fields = get_field_dependencies(db.field_ids, db.dependency_rows)
    /\ function_specs = NoFunctionSpecs
    /\ taxpayer_context = NoContext
    /\ taxpayer_values = load_field_values(NoCalculations)
    /\ calculations = NoCalculations

\* The arguments of build_taxpayer_specific_tree.
InitSpecific ==
    /\ builder = "specific"
    /\ \E filing \in BOOLEAN, sources \in IncomeSourceOptions, rows \in RowSeqs :
          db = Database(IncomeTypes, filing, "single", sources, TreeIds, rows)
    /\ fields = get_field_dependencies(db.field_ids, db.dependency_rows)
    /\ function_specs = NoFunctionSpecs
    /\ taxpayer_context = NoContext
    /\ taxpayer_values = load_field_values(NoCalculations)
    /\ calculations \in FirstOrNone(get_taxpayer_calculations(db), NoCalculations)

Init ==
    /\ InitPure \/ InitTaxpayer \/ InitYear \/ InitSpecific
    /\ root \in TreeIds \cup {UnknownId}
    /\ IdleCall
    /\ IdleMain
    /\ IdleTax
    /\ IdleScripts

Next == TopCall \/ Descend \/ Return

Spec == Init /\ [][Next]_vars

(***************************************************************************)
(* The TypeQL functions applied to one taxpayer with a filing              *)
(***************************************************************************)
\* Total incomes tried: none, below, at and just above each standard
\* deduction, and the amounts that put the taxable income on a bracket
\* boundary of each filing status.
TaxIncomes == {0, 10000, 14600, 14601, 21900, 26200, 29200, 38450, 52400, 61750,
               85000, 115125, 122400, 123500, 230250}

SourcesOfTotal(a) ==
    IF a = 0 THEN <<>> ELSE << [name |-> "W-2 Wages", amount |-> a] >>

InitTax ==
    /\ \E st \in FilingStatuses, a \in TaxIncomes :
          db = Database(IncomeTypes, TRUE, st, SourcesOfTotal(a),
                        DOMAIN FormFields, FormDependencyRows)
    /\ builder = "year"
    /\ root = DefaultRootField
    /\ fields = get_field_dependencies(db.field_ids, db.dependency_rows)
    /\ function_specs = NoFunctionSpecs
    /\ taxpayer_context = NoContext
    /\ taxpayer_values = load_field_values(NoCalculations)
    /\ calculations = NoCalculations
    /\ stack = <<>>
    /\ visited = {}
    /\ tree = <<>>
    /\ queries = <<>>
    /\ status = "off"
    /\ IdleMain
    /\ IdleTax
    /\ IdleScripts

\* match ... let $taxable = calculate_taxable_income($taxpayer, $year, $status)
CalculateTaxableIncome ==
    /\ ~taxable_income.called
    /\ taxable_income' = [called |-> TRUE, rows |-> calculate_taxable_income(db)]
    /\ UNCHANGED federal_tax
    /\ UNCHANGED treeVars
    /\ UNCHANGED mainVars
    /\ UNCHANGED scriptVars

\* match ... let $tax = calculate_federal_tax($taxpayer, $year, $status):
\* "return first" keeps one of the rows.
CalculateFederalTax ==
    /\ ~federal_tax.called
    /\ \E kept \in FirstOrNone({{x} : x \in calculate_federal_tax(db)}, {}) :
          federal_tax' = [called |-> TRUE, rows |-> kept]
    /\ UNCHANGED taxable_income
    /\ UNCHANGED treeVars
    /\ UNCHANGED mainVars
    /\ UNCHANGED scriptVars

NextTax == CalculateTaxableIncome \/ CalculateFederalTax

SpecTax == InitTax /\ [][NextTax]_vars

(***************************************************************************)
(* query_dependency_tree.main                                              *)
(***************************************************************************)
Printed(kind, view, lines) == [kind |-> kind, view |-> view, lines |-> lines]

\* display_header(title, mode)
Header(view) == Printed("header", view, <<>>)

\* The branch main takes, with the elif tested first: --compare with --ssn
\* goes to the taxpayer branch and the generic view is skipped.
MainBranchTaxpayerFirst(a) ==
    CASE a.compare /\ ~a.ssn -> "error"
      [] a.ssn -> "taxpayer"
      [] OTHER -> "generic"

\* The branch main takes without the test of args.ssn inside the comparison
\* branch: --compare alone shows the year view.
MainBranchNoSsnTest(a) ==
    CASE a.compare /\ a.ssn -> "compare"
      [] a.compare /\ ~a.ssn -> "generic"
      [] ~a.compare /\ a.ssn -> "taxpayer"
      [] OTHER -> "generic"

\* if args.compare: (if not args.ssn: ...) elif args.ssn: ... else: ...
MainBranch(a) ==
    CASE a.compare /\ ~a.ssn -> "error"
      [] a.compare /\ a.ssn -> "compare"
      [] ~a.compare /\ a.ssn -> "taxpayer"
      [] OTHER -> "generic"

\* A fresh top-level call of the renderer b is about to be made.
PrepareCall(b) ==
    /\ builder' = b
    /\ stack' = <<>>
    /\ visited' = {}
    /\ tree' = <<>>
    /\ queries' = <<>>
    /\ status' = "idle"

\* The taxpayer part of main: the calculations are fetched; with a row the
\* taxpayer view is rendered next, without one the message is printed and
\* main returns (the finally clause closes the driver).
TaxpayerPart(sofar) ==
    \E c \in FirstOrNone(get_taxpayer_calculations(db), NoCalculations) :
        /\ calculations' = c
        /\ IF c.present
           THEN /\ printed' = sofar \o <<Header("Taxpayer View")>>
                /\ PrepareCall("specific")
                /\ pc' = "specific"
                /\ driver' = "open"
           ELSE /\ printed' = sofar \o <<Printed("no_filing", "", <<>>)>>
                /\ pc' = "done"
                /\ driver' = "closed"
                /\ UNCHANGED <<builder, stack, visited, tree, queries, status>>

\* main from its start to its first rendering call (or to its return).
MainBegin ==
    /\ pc = "start"
    /\ fields' = get_field_dependencies(db.field_ids, db.dependency_rows)
    /\ root' = DefaultRootField
    /\ LET branch == MainBranch(args)
       IN  CASE branch = "error" ->
                  /\ printed' = <<Printed("error", "", <<>>)>>
                  /\ pc' = "done"
                  /\ driver' = "closed"
                  /\ UNCHANGED <<builder, stack, visited, tree, queries, status,
                                 calculations>>
             [] branch \in {"compare", "generic"} ->
                  /\ printed' = <<Header("Year View")>>
                  /\ PrepareCall("year")
                  /\ pc' = "generic"
                  /\ driver' = "open"
                  /\ UNCHANGED calculations
             [] branch = "taxpayer" -> TaxpayerPart(<<>>)
    /\ UNCHANGED <<function_specs, db, taxpayer_context, taxpayer_values, args>>
    /\ UNCHANGED taxVars
    /\ UNCHANGED scriptVars

\* print(tree) of the year view, and what follows it.
MainAfterGeneric ==
    /\ pc = "generic"
    /\ status = "returned"
    /\ IF MainBranch(args) = "compare"
       THEN TaxpayerPart(Append(printed, Printed("tree", "Year View", tree)))
       ELSE /\ printed' = Append(printed, Printed("tree", "Year View", tree))
            /\ pc' = "done"
            /\ driver' = "closed"
            /\ UNCHANGED <<builder, stack, visited, tree, queries, status, calculations>>
    /\ UNCHANGED <<root, fields, function_specs, db, taxpayer_context, taxpayer_values,
                   args>>
    /\ UNCHANGED taxVars
    /\ UNCHANGED scriptVars

\* print(tree) of the taxpayer view; main ends.
MainAfterSpecific ==
    /\ pc = "specific"
    /\ status = "returned"
    /\ printed' = Append(printed, Printed("tree", "Taxpayer View", tree))
    /\ pc' = "done"
    /\ driver' = "closed"
    /\ UNCHANGED treeVars
    /\ UNCHANGED args
    /\ UNCHANGED taxVars
    /\ UNCHANGED scriptVars

InitMain ==
    /\ args \in [compare : BOOLEAN, ssn : BOOLEAN]
    /\ \E types \in {<<>>, IncomeTypes}, filing \in BOOLEAN, st \in FilingStatuses,
          sources \in IncomeSourceOptions :
          db = Database(types, filing, st, sources, DOMAIN FormFields,
                        FormDependencyRows)
    /\ pc = "start"
    /\ printed = <<>>
    /\ driver = "none"
    /\ builder = "year"
    /\ root = DefaultRootField
    /\ fields = [id \in {} |-> 0]
    /\ function_specs = NoFunctionSpecs
    /\ taxpayer_context = NoContext
    /\ taxpayer_values = load_field_values(NoCalculations)
    /\ calculations = NoCalculations
    /\ stack = <<>>
    /\ visited = {}
    /\ tree = <<>>
    /\ queries = <<>>
    /\ status = "off"
    /\ IdleTax
    /\ IdleScripts

NextMain == MainBegin \/ TopCall \/ Descend \/ Return \/ MainAfterGeneric
            \/ MainAfterSpecific

SpecMain == InitMain /\ [][NextMain]_vars

(***************************************************************************)
(* The two builder scripts run one after the other on one database         *)
(***************************************************************************)
\* tax_form_calc_tree.main / taxpayer_calc_tree.main: print(tree)
PrintTree ==
    /\ pc = "scripts"
    /\ status = "returned"
    /\ printed' = Append(printed, Printed("tree", builder, tree))
    /\ status' = "printed"
    /\ UNCHANGED <<builder, root, fields, function_specs, db, taxpayer_context,
                   taxpayer_values, calculations, stack, visited, tree, queries>>
    /\ UNCHANGED <<args, pc, driver>>
    /\ UNCHANGED taxVars
    /\ UNCHANGED scriptVars

\* taxpayer_calc_tree.main after tax_form_calc_tree.main, with the same
\* --field: GenericTaxpayerTreeBuilder(tx, year, ssn) loads the same metadata
\* and the taxpayer's context and values.
RunTaxpayerScript ==
    /\ pc = "scripts"
    /\ builder = "pure"
    /\ status = "printed"
    /\ PrepareCall("taxpayer")
    /\ fields' = load_metadata(db.field_ids, db.dependency_rows)
    /\ taxpayer_context' = load_taxpayer_context(db)
    /\ \E c \in FirstOrNone(get_taxpayer_calculations(db), NoCalculations) :
          taxpayer_values' = load_field_values(c)
    /\ UNCHANGED <<root, function_specs, db, calculations>>
    /\ UNCHANGED mainVars
    /\ UNCHANGED taxVars
    /\ UNCHANGED scriptVars

\* Largest number of field_dependency rows when both scripts are run.
MaxPairRows == 2

PairRowSeqs == {r \in RowSeqs : Len(r) <= MaxPairRows}

InitPair ==
    /\ builder = "pure"
    /\ \E types \in {<<>>, IncomeTypes}, pattern \in {"set", "none"},
          filing \in BOOLEAN, sources \in IncomeSourceOptions, rows \in PairRowSeqs :
          /\ db = Database(types, filing, "single", sources, TreeIds, rows)
          /\ function_specs = FunctionSpecsWith(pattern)
    /\ fields = load_metadata(db.field_ids, db.dependency_rows)
    /\ taxpayer_context = NoContext
    /\ taxpayer_values = load_field_values(NoCalculations)
    /\ calculations = NoCalculations
    /\ root \in TreeIds \cup {UnknownId}
    /\ IdleCall
    /\ args = [compare |-> FALSE, ssn |-> TRUE]
    /\ pc = "scripts"
    /\ printed = <<>>
    /\ driver = "none"
    /\ IdleTax
    /\ IdleScripts

NextPair == TopCall \/ Descend \/ Return \/ PrintTree \/ RunTaxpayerScript

SpecPair == InitPair /\ [][NextPair]_vars

(***************************************************************************)
(* Setup and maintenance scripts: one run is a sequence of driver          *)
(* operations on the server's databases                                    *)
(***************************************************************************)
\* Largest number of times a script is started again after a successful run.
MaxReruns == 1

NoData == [x \in {} |-> 0]

AbsentDatabase == [exists |-> FALSE, schema |-> {}, data |-> NoData]

EmptyDatabase == [exists |-> TRUE, schema |-> {}, data |-> NoData]

\* Number of instances of item in a bag of inserted items.
HowMany(d, item) == IF item \in DOMAIN d THEN d[item] ELSE 0

AddItems(d, item, n) ==
    IF n = 0 THEN d
    ELSE IF item \in DOMAIN d THEN [d EXCEPT ![item] = @ + n]
    ELSE d @@ (item :> n)

RECURSIVE AddAll(_, _, _)
AddAll(d, pending, items) ==
    IF items = {} THEN d
    ELSE LET x == CHOOSE y \in items : TRUE
         IN AddAll(AddItems(d, x, pending[x]), pending, items \ {x})

\* One operation of a script: what it does, on what, the item whose matches
\* an insert is repeated for ("" for a plain insert), and the step it
\* completes ("" when it completes none).
Op(o, a, p, l) == [op |-> o, arg |-> a, per |-> p, logs |-> l]

\* setup_database_simple.main
SimpleProgram ==
    << Op("connect", "exit", "", ""),
       Op("recreate", "tax-system", "", "create"),
       Op("open_file", "schema_file", "", ""),
       Op("begin", "schema", "", "begin"),
       Op("define", "schema_file", "", ""),
       Op("commit", "", "", "schema"),
       Op("open_file", "data_file", "", ""),
       Op("begin", "write", "", "begin"),
       Op("insert", "data_file", "", ""),
       Op("commit", "", "", "sample_data"),
       Op("done", "", "", "") >>

\* semantic_tax_system.setup_true_semantic_database and the four functions
\* it calls
SemanticProgram ==
    << Op("connect", "raise", "", ""),
       Op("recreate", "tax-system", "", "create"),
       Op("begin", "schema", "", "begin"),
       Op("define", "core_schema", "", ""),
       Op("define", "calculation_functions", "", ""),
       Op("commit", "", "", "schema"),
       Op("begin", "write", "", "begin"),
       Op("insert", "form_metadata", "", ""),
       Op("insert", "tax_config", "", ""),
       Op("commit", "", "", "form_metadata"),
       Op("begin", "write", "", "begin"),
       Op("insert", "function_metadata", "", ""),
       Op("commit", "", "", "function_metadata"),
       Op("begin", "write", "", "begin"),
       Op("insert", "test_taxpayer", "tax_config", ""),
       Op("commit", "", "", "sample_data"),
       Op("begin", "read", "", "begin"),
       Op("read", "calculate_agi", "", ""),
       Op("read", "calculate_taxable_income", "", ""),
       Op("read", "calculate_federal_tax", "", ""),
       Op("end", "", "", "verify"),
       Op("done", "", "", "") >>

\* The same operations with the sample data inserted before the schema is
\* defined.
AuditProgramDataFirst ==
    << Op("connect", "raise", "", ""),
       Op("recreate", "tax-system", "", "create"),
       Op("begin", "write", "", "begin"),
       Op("insert", "taxpayer", "", ""),
       Op("commit", "", "", "sample_data"),
       Op("begin", "schema", "", "begin"),
       Op("define", "basic_schema", "", ""),
       Op("define", "audit_schema", "", ""),
       Op("commit", "", "", "schema"),
       Op("begin", "write", "", "begin"),
       Op("insert", "income_step", "taxpayer", ""),
       Op("insert", "income_step", "taxpayer", ""),
       Op("insert", "income_step", "taxpayer", ""),
       Op("insert", "agi_step", "taxpayer", ""),
       Op("insert", "agi_lineage", "income_step", ""),
       Op("insert", "deduction_step", "taxpayer", ""),
       Op("insert", "taxable_step", "taxpayer", ""),
       Op("insert", "tax_step", "taxable_step", ""),
       Op("commit", "", "", "audit_trail"),
       Op("begin", "read", "", "begin"),
       Op("read", "count_steps", "", ""),
       Op("read", "count_lineage", "", ""),
       Op("read", "tree", "", ""),
       Op("end", "", "", "verify"),
       Op("done", "", "", "") >>

\* setup_audit_trail.setup_database
AuditProgram ==
    << Op("connect", "raise", "", ""),
       Op("recreate", "tax-system", "", "create"),
       Op("begin", "schema", "", "begin"),
       Op("define", "basic_schema", "", ""),
       Op("define", "audit_schema", "", ""),
       Op("commit", "", "", "schema"),
       Op("begin", "write", "", "begin"),
       Op("insert", "taxpayer", "", ""),
       Op("commit", "", "", "sample_data"),
       Op("begin", "write", "", "begin"),
       Op("insert", "income_step", "taxpayer", ""),
       Op("insert", "income_step", "taxpayer", ""),
       Op("insert", "income_step", "taxpayer", ""),
       Op("insert", "agi_step", "taxpayer", ""),
       Op("insert", "agi_lineage", "income_step", ""),
       Op("insert", "deduction_step", "taxpayer", ""),
       Op("insert", "taxable_step", "taxpayer", ""),
       Op("insert", "tax_step", "taxable_step", ""),
       Op("commit", "", "", "audit_trail"),
       Op("begin", "read", "", "begin"),
       Op("read", "count_steps", "", ""),
       Op("read", "count_lineage", "", ""),
       Op("read", "tree", "", ""),
       Op("end", "", "", "verify"),
       Op("done", "", "", "") >>

\* verify_database.main
VerifyProgram ==
    << Op("connect", "raise", "", ""),
       Op("return_unless_exists", "tax-system", "", ""),
       Op("begin", "read", "", "begin"),
       Op("read", "entity_types", "", ""),
       Op("end", "", "", "verify"),
       Op("done", "", "", "") >>

\* test_definition_exercises.test_attribute_definitions
ExerciseProgram ==
    << Op("connect", "raise", "", ""),
       Op("ensure", "expense-tracker", "", "ensured"),
       Op("begin", "schema", "", "begin"),
       Op("define", "attributes", "", ""),
       Op("commit", "", "", "attributes"),
       Op("begin", "schema", "", "begin"),
       Op("define", "entities", "", ""),
       Op("commit", "", "", "entities"),
       Op("delete", "expense-tracker", "", "deleted"),
       Op("done", "", "", "") >>

\* visualize_calculation_tree.TaxCalculationAuditor.get_calculation_tree
CalculationTreeProgram ==
    << Op("connect", "raise", "", ""),
       Op("begin", "read", "", "begin"),
       Op("read", "root_step", "", ""),
       Op("return_unless_found", "tax_step", "", ""),
       Op("read", "inputs", "", ""),
       Op("end", "", "", "tree"),
       Op("done", "", "", "") >>

\* query_dependency_tree.main, its rendering calls taken as reads
QueryTreeProgram ==
    << Op("connect", "raise", "", ""),
       Op("begin", "read", "", "begin"),
       Op("read", "field_dependencies", "", ""),
       Op("return_if_input", "compare_without_ssn", "", ""),
       Op("read", "tree", "", ""),
       Op("end", "", "", "tree"),
       Op("done", "", "", "") >>

SetupScripts == {"setup_database_simple", "semantic_tax_system", "setup_audit_trail"}

Scripts == SetupScripts \cup {"verify_database", "test_definition_exercises",
                              "get_calculation_tree", "query_dependency_tree"}

Program(s) ==
    CASE s = "setup_database_simple" -> SimpleProgram
      [] s = "semantic_tax_system" -> SemanticProgram
      [] s = "setup_audit_trail" -> AuditProgram
      [] s = "verify_database" -> VerifyProgram
      [] s = "test_definition_exercises" -> ExerciseProgram
      [] s = "get_calculation_tree" -> CalculationTreeProgram
      [] OTHER -> QueryTreeProgram

\* The database the script's transactions are opened on.
DatabaseOf(s) == IF s = "test_definition_exercises" THEN "expense-tracker" ELSE "tax-system"

\* What the script's caller sees when an operation raises: the exception,
\* a normal return (the handler only prints) or sys.exit(1).
OnException(s) ==
    CASE s = "setup_database_simple" -> "exited"
      [] s = "test_definition_exercises" -> "exited"
      [] s = "verify_database" -> "returned"
      [] OTHER -> "raised"

\* A model of the code in which no script releases its driver.
ClosesDriverNever(s) == FALSE

\* The driver is released by a finally clause or by a with statement.
ClosesDriver(s) == s \in Scripts

\* The same operation without the deletion of an existing database.
recreate_keeping(dbs, name) ==
    IF dbs[name].exists THEN dbs ELSE [dbs EXCEPT ![name] = EmptyDatabase]

\* if databases.contains(name): databases.get(name).delete(); databases.create(name)
recreate(dbs, name) == [dbs EXCEPT ![name] = EmptyDatabase]

\* if not databases.contains(name): databases.create(name)
create_unless_contains(dbs, name) ==
    IF dbs[name].exists THEN dbs ELSE [dbs EXCEPT ![name] = EmptyDatabase]

CurrentOp == Program(script)[at]

Running == outcome = "running" /\ connection = "open"

Advance(l) ==
    /\ at' = at + 1
    /\ log' = IF l = "" THEN log ELSE Append(log, l)

\* TypeDB.driver(...) / TypeDB.cloud_driver(...) succeeds.
Connect ==
    /\ outcome = "running"
    /\ connection = "none"
    /\ CurrentOp.op = "connect"
    /\ connection' = "open"
    /\ Advance("")
    /\ UNCHANGED <<script, open_txs, databases, outcome, runs>>
    /\ UNCHANGED <<treeVars, mainVars, taxVars>>

\* The driver cannot be opened: setup_database_simple prints and exits, the
\* other scripts let the exception out; no driver exists.
ConnectFails ==
    /\ outcome = "running"
    /\ connection = "none"
    /\ CurrentOp.op = "connect"
    /\ outcome' = IF CurrentOp.arg = "exit" THEN "exited" ELSE OnException(script)
    /\ UNCHANGED <<script, at, connection, open_txs, databases, log, runs>>
    /\ UNCHANGED <<treeVars, mainVars, taxVars>>

Recreate ==
    /\ Running
    /\ CurrentOp.op = "recreate"
    /\ databases' = recreate(databases, CurrentOp.arg)
    /\ Advance(CurrentOp.logs)
    /\ UNCHANGED <<script, connection, open_txs, outcome, runs>>
    /\ UNCHANGED <<treeVars, mainVars, taxVars>>

Ensure ==
    /\ Running
    /\ CurrentOp.op = "ensure"
    /\ databases' = create_unless_contains(databases, CurrentOp.arg)
    /\ Advance(CurrentOp.logs)
    /\ UNCHANGED <<script, connection, open_txs, outcome, runs>>
    /\ UNCHANGED <<treeVars, mainVars, taxVars>>

\* driver.databases.delete(name)
DeleteDatabase ==
    /\ Running
    /\ CurrentOp.op = "delete"
    /\ databases[CurrentOp.arg].exists
    /\ databases' = [databases EXCEPT ![CurrentOp.arg] = AbsentDatabase]
    /\ Advance(CurrentOp.logs)
    /\ UNCHANGED <<script, connection, open_txs, outcome, runs>>
    /\ UNCHANGED <<treeVars, mainVars, taxVars>>

\* with open(path, 'r') as f: content = f.read()
OpenFile ==
    /\ Running
    /\ CurrentOp.op = "open_file"
    /\ Advance("")
    /\ UNCHANGED <<script, connection, open_txs, databases, outcome, runs>>
    /\ UNCHANGED <<treeVars, mainVars, taxVars>>

\* with driver.transaction(database, kind) as tx:
Begin ==
    /\ Running
    /\ CurrentOp.op = "begin"
    /\ databases[DatabaseOf(script)].exists
    /\ open_txs' = Append(open_txs, [kind |-> CurrentOp.arg, schema |-> {}, data |-> NoData])
    /\ Advance(CurrentOp.logs)
    /\ UNCHANGED <<script, connection, databases, outcome, runs>>
    /\ UNCHANGED <<treeVars, mainVars, taxVars>>

\* tx.query(...).resolve(): a define adds to the transaction's schema, an
\* insert adds one instance for every match of its match clause, a read
\* changes nothing.
Query ==
    /\ Running
    /\ CurrentOp.op \in {"define", "insert", "read"}
    /\ open_txs # <<>>
    /\ LET tx == open_txs[Len(open_txs)]
           committed == databases[DatabaseOf(script)].data
           n == IF CurrentOp.per = "" THEN 1
                ELSE HowMany(committed, CurrentOp.per) + HowMany(tx.data, CurrentOp.per)
       IN open_txs' = [open_txs EXCEPT ![Len(open_txs)] =
              CASE CurrentOp.op = "define" -> [tx EXCEPT !.schema = @ \cup {CurrentOp.arg}]
                [] CurrentOp.op = "insert" -> [tx EXCEPT !.data = AddItems(@, CurrentOp.arg, n)]
                [] OTHER -> tx]
    /\ Advance("")
    /\ UNCHANGED <<script, connection, databases, outcome, runs>>
    /\ UNCHANGED <<treeVars, mainVars, taxVars>>

\* tx.commit() as the last statement of the with block: the transaction's
\* writes reach the database and the transaction is closed.
Commit ==
    /\ Running
    /\ CurrentOp.op = "commit"
    /\ open_txs # <<>>
    /\ LET tx == open_txs[Len(open_txs)]
           name == DatabaseOf(script)
       IN databases' = [databases EXCEPT
              ![name].schema = @ \cup tx.schema,
              ![name].data = AddAll(@, tx.data, DOMAIN tx.data)]
    /\ open_txs' = SubSeq(open_txs, 1, Len(open_txs) - 1)
    /\ Advance(CurrentOp.logs)
    /\ UNCHANGED <<script, connection, outcome, runs>>
    /\ UNCHANGED <<treeVars, mainVars, taxVars>>

\* The end of the with block of a read transaction.
EndTransaction ==
    /\ Running
    /\ CurrentOp.op = "end"
    /\ open_txs # <<>>
    /\ open_txs' = SubSeq(open_txs, 1, Len(open_txs) - 1)
    /\ Advance(CurrentOp.logs)
    /\ UNCHANGED <<script, connection, databases, outcome, runs>>
    /\ UNCHANGED <<treeVars, mainVars, taxVars>>

\* The condition of an early return, from the operation and the server's
\* state; a condition on the command line is an input.
ReturnsEarly(o) ==
    CASE o.op = "return_unless_exists" -> {~databases[o.arg].exists}
      [] o.op = "return_unless_found" ->
            {HowMany(databases[DatabaseOf(script)].data, o.arg) = 0}
      [] o.op = "return_if_input" -> BOOLEAN
      [] OTHER -> {FALSE}

\* A test that does not return: the script goes on.
PassTest ==
    /\ Running
    /\ FALSE \in ReturnsEarly(CurrentOp)
    /\ CurrentOp.op \in {"return_unless_exists", "return_unless_found", "return_if_input"}
    /\ Advance("")
    /\ UNCHANGED <<script, connection, open_txs, databases, outcome, runs>>
    /\ UNCHANGED <<treeVars, mainVars, taxVars>>

\* return inside the try block: the with blocks are left, then the finally
\* clause runs.
EarlyReturn ==
    /\ Running
    /\ TRUE \in ReturnsEarly(CurrentOp)
    /\ open_txs' = <<>>
    /\ connection' = IF ClosesDriver(script) THEN "closed" ELSE connection
    /\ outcome' = "returned"
    /\ UNCHANGED <<script, at, databases, log, runs>>
    /\ UNCHANGED <<treeVars, mainVars, taxVars>>

\* The end of the try block (of the with block of the driver).
Finish ==
    /\ Running
    /\ CurrentOp.op = "done"
    /\ connection' = IF ClosesDriver(script) THEN "closed" ELSE connection
    /\ outcome' = "returned"
    /\ UNCHANGED <<script, at, open_txs, databases, log, runs>>
    /\ UNCHANGED <<treeVars, mainVars, taxVars>>

\* An operation on the driver, a transaction or a file raises: the open
\* transactions are left without commit, the except clause (where there is
\* one) runs, then the finally clause.
Raise ==
    /\ Running
    /\ CurrentOp.op \notin {"done", "return_if_input"}
    /\ open_txs' = <<>>
    /\ connection' = IF ClosesDriver(script) THEN "closed" ELSE connection
    /\ outcome' = OnException(script)
    /\ UNCHANGED <<script, at, databases, log, runs>>
    /\ UNCHANGED <<treeVars, mainVars, taxVars>>

\* The same script is started again after a run that completed.
RunAgain ==
    /\ outcome = "returned"
    /\ at = Len(Program(script))
    /\ runs < MaxReruns
    /\ runs' = runs + 1
    /\ at' = 1
    /\ connection' = "none"
    /\ open_txs' = <<>>
    /\ log' = <<>>
    /\ outcome' = "running"
    /\ UNCHANGED <<script, databases>>
    /\ UNCHANGED <<treeVars, mainVars, taxVars>>

\* What a database may hold before the script is started.
StaleDatabase ==
    [exists |-> TRUE, schema |-> {"old_schema"}, data |-> ("taxpayer" :> 1) @@ ("old_item" :> 2)]

PriorDatabases == {AbsentDatabase, EmptyDatabase, StaleDatabase}

InitScripts ==
    /\ script \in Scripts
    /\ at = 1
    /\ connection = "none"
    /\ open_txs = <<>>
    /\ databases \in [{"tax-system", "expense-tracker"} -> PriorDatabases]
    /\ log = <<>>
    /\ outcome = "running"
    /\ runs = 0
    /\ db = Database(<<>>, FALSE, "single", <<>>, {}, <<>>)
    /\ builder = "year"
    /\ root = DefaultRootField
    /\ fields = get_field_dependencies(db.field_ids, db.dependency_rows)
    /\ function_specs = NoFunctionSpecs
    /\ taxpayer_context = NoContext
    /\ taxpayer_values = load_field_values(NoCalculations)
    /\ calculations = NoCalculations
    /\ IdleCall
    /\ IdleMain
    /\ IdleTax

NextScripts ==
    \/ Connect \/ ConnectFails \/ Recreate \/ Ensure \/ DeleteDatabase \/ OpenFile
    \/ Begin \/ Query \/ Commit \/ EndTransaction \/ PassTest \/ EarlyReturn
    \/ Finish \/ Raise \/ RunAgain

SpecScripts == InitScripts /\ [][NextScripts]_vars

(***************************************************************************)
(* A builder run on the loaded metadata, then on the same metadata with    *)
(* every field id renamed                                                  *)
(***************************************************************************)
\* A consistent renaming of the field ids.
Rename(id) ==
    CASE id = "1040-line-16" -> "form-line-16"
      [] id = "1040-line-12" -> "form-line-12"
      [] id = "1040-line-9" -> "form-line-9"
      [] id = "1040-line-11" -> "form-line-11"
      [] OTHER -> id

\* self.fields as load_metadata builds it from a database whose form_field
\* entities carry the renamed ids: the keys and the dependency lists are
\* renamed, names and functions are the same.
RenameFields(f) ==
    [nid \in {Rename(id) : id \in DOMAIN f} |->
        LET id == CHOOSE x \in DOMAIN f : Rename(x) = nid
        IN  [f[id] EXCEPT !.dependencies = [i \in DOMAIN @ |-> Rename(@[i])]]]

\* The same builder class on the renamed metadata, with the same --field
\* renamed; the function specs, the taxpayer's context and the values that
\* load_field_values stores do not come from the form_field entities.
RunRenamed ==
    /\ pc = "scripts"
    /\ status = "printed"
    /\ Len(printed) = 1
    /\ PrepareCall(builder)
    /\ fields' = RenameFields(fields)
    /\ root' = Rename(root)
    /\ UNCHANGED <<function_specs, db, taxpayer_context, taxpayer_values, calculations>>
    /\ UNCHANGED mainVars
    /\ UNCHANGED taxVars
    /\ UNCHANGED scriptVars

InitRename ==
    /\ InitPure \/ InitTaxpayer
    /\ root \in TreeIds \cup {UnknownId}
    /\ IdleCall
    /\ args = [compare |-> FALSE, ssn |-> builder = "taxpayer"]
    /\ pc = "scripts"
    /\ printed = <<>>
    /\ driver = "none"
    /\ IdleTax
    /\ IdleScripts

NextRename == TopCall \/ Descend \/ Return \/ PrintTree \/ RunRenamed

SpecRename == InitRename /\ [][NextRename]_vars

(***************************************************************************)
(* Termination of one top-level call                                       *)
(***************************************************************************)
FairSpec == Spec /\ WF_vars(Next)

Terminates == <>(status \in {"returned", "raised"})

(***************************************************************************)
(* Reading a rendered tree                                                 *)
(***************************************************************************)
FieldLines(t) == SelectSeq(t, LAMBDA l : l.kind = "field")

\* The field ids of the node lines, in output order.
NodeIds(t) == [i \in 1..Len(FieldLines(t)) |-> FieldLines(t)[i].id]

\* The field id and the nesting depth of every node line, in output order.
NodeShape(t) ==
    [i \in 1..Len(FieldLines(t)) |->
        [id |-> FieldLines(t)[i].id, depth |-> Len(FieldLines(t)[i].ind)]]

HasCircularLine(t) == \E i \in 1..Len(t) : t[i].kind = "circular"

StackIds == {stack[k].id : k \in 1..Len(stack)}

Count(q, s) == Cardinality({i \in 1..Len(s) : s[i] = q})

Max(a, b) == IF a >= b THEN a ELSE b

(***************************************************************************)
(* Claims                                                                  *)
(***************************************************************************)

\* C1: every top-level call of a renderer ends by returning a string: a
\* state in which the call can take no further step is a state in which it
\* has returned (it has not ended by raising).
C1_EndsByReturningString == status = "returned" \/ ENABLED Next

\* C2: a "(circular reference)" line is printed for a field only when that
\* field is an ancestor of the current node, that is, when its call is still
\* on the stack.
C2_CircularOnlyForAncestors ==
    [][(/\ status = "running"
        /\ stack # <<>>
        /\ Len(tree') > Len(tree)
        /\ tree'[Len(tree')].kind = "circular"
        /\ LET f == stack[Len(stack)]
           IN  fields[f.id].dependencies[f.i] \in DOMAIN fields)
       => LET f == stack[Len(stack)]
          IN  fields[f.id].dependencies[f.i] \in StackIds]_vars

\* The aggregation fields that end as a leaf: their item list is not empty.
EndsAsAggregationLeaf(id) ==
    /\ FuncSpec(fields[id].function).type = "aggregation"
    /\ FuncSpec(fields[id].function).query_pattern = "income_type"
    /\ db.income_types # <<>>

\* Depth-first pre-order over the stored dependency lists: the pair of the
\* node ids listed and the fields seen.
RECURSIVE PreOrder(_, _), PreOrderList(_, _)
PreOrder(id, seen) ==
    IF id \in seen THEN [nodes |-> <<>>, seen |-> seen]
    ELSE IF id \notin DOMAIN fields THEN [nodes |-> <<>>, seen |-> seen \cup {id}]
    ELSE IF EndsAsAggregationLeaf(id) THEN [nodes |-> <<id>>, seen |-> seen \cup {id}]
    ELSE LET below == PreOrderList(fields[id].dependencies, seen \cup {id})
         IN  [nodes |-> <<id>> \o below.nodes, seen |-> below.seen]
PreOrderList(ids, seen) ==
    IF ids = <<>> THEN [nodes |-> <<>>, seen |-> seen]
    ELSE LET first == PreOrder(Head(ids), seen)
             rest == PreOrderList(Tail(ids), first.seen)
         IN  [nodes |-> first.nodes \o rest.nodes, seen |-> rest.seen]

\* C3: the node lines of a tree returned by PurelyGenericTreeBuilder.build_tree
\* are the depth-first pre-order of the dependency lists from the root, a
\* field already visited or ended as an aggregation leaf not being expanded,
\* and no field has two node lines.
C3_SinglePassPreOrder ==
    (builder = "pure" /\ status = "returned")
    => /\ NodeIds(tree) = PreOrder(root, {}).nodes
       /\ \A i, j \in 1..Len(NodeIds(tree)) : NodeIds(tree)[i] = NodeIds(tree)[j] => i = j

\* C3 witness: a returned tree of several nodes in which a visited field was
\* met again and an aggregation field with dependencies ended as a leaf.
C3_Witness ==
    /\ builder = "pure"
    /\ status = "returned"
    /\ Len(NodeIds(tree)) >= 2
    /\ HasCircularLine(tree)
    /\ \E id \in Range(NodeIds(tree)) :
          EndsAsAggregationLeaf(id) /\ fields[id].dependencies # <<>>

\* C4 as stated: while a top-level call runs, and when it has returned, no
\* query has been issued on the transaction.
C4_NoQueryWhileRendering == status \in {"running", "returned"} => queries = <<>>

\* The queries one expansion of a field may issue, by renderer.
ContentQueries(b, id) ==
    LET fn == fields[id].function
        qp == FuncSpec(fn).query_pattern
    IN  CASE b = "pure" ->
               IF qp \in {"income_type", "standard_deduction_rule", "tax_bracket_rule"}
               THEN {qp} ELSE {}
          [] b = "taxpayer" ->
               IF qp = "income_type" THEN {"income_source"}
               ELSE IF qp \in {"standard_deduction_rule", "tax_bracket_rule"}
               THEN {qp} ELSE {}
          [] b = "year" ->
               (IF fn = "calculate_total_income" THEN {"income_type"} ELSE {})
               \cup (IF id = "1040-line-12"
                     THEN {"standard_deduction_rule", "itemized_deduction_option",
                           "deduction_limit"} ELSE {})
               \cup (IF fn = "calculate_federal_tax"
                     THEN {"tax_bracket_rule", "filing_status"} ELSE {})
          [] b = "specific" ->
               (IF fn = "calculate_total_income" THEN {"income_source"} ELSE {})
               \cup (IF fn = "get_standard_deduction" THEN {"filing_status"} ELSE {})
               \cup (IF fn = "calculate_federal_tax" THEN {"tax_bracket_rule"} ELSE {})

\* How often one expansion issues a query of one kind: once, but one limit
\* query an itemized deduction and one display query a filing status.
PerExpansion(q) ==
    CASE q = "deduction_limit" -> Len(ItemizedDeductionTypes)
      [] q = "filing_status" -> Len(StatusOrder)
      [] OTHER -> 1

QueryKinds == {"income_type", "income_source", "standard_deduction_rule",
               "tax_bracket_rule", "itemized_deduction_option", "deduction_limit",
               "filing_status"}

\* C4 as amended: the renderers do query the transaction while rendering, but
\* only for the content of a field they expand, and a field is expanded at
\* most once in a top-level call: every query issued is of a kind the
\* expansion of some visited, loaded field calls for, and of each kind there
\* are no more than those fields account for.
C4_QueriesOnlyForExpandedFields ==
    /\ Range(queries) \subseteq QueryKinds
    /\ \A q \in QueryKinds :
          Count(q, queries) <=
              PerExpansion(q) * Cardinality({id \in visited \cap DOMAIN fields :
                                                q \in ContentQueries(builder, id)})

\* C4 witness: a returned tree whose rendering issued queries and met a
\* visited field again.
C4_Witness ==
    /\ status = "returned"
    /\ queries # <<>>
    /\ HasCircularLine(tree)
    /\ Cardinality(visited \cap DOMAIN fields) >= 2

\* C5: once both builder scripts have printed their tree for the same root
\* and the same loaded metadata, the two trees have the same field nodes in
\* the same order at the same depth.
C5_ViewsHaveSameNodes ==
    Len(printed) = 2 => NodeShape(printed[1].lines) = NodeShape(printed[2].lines)

\* C6: when main has ended, the "No tax filing found" message was printed
\* only if the database holds no filing for the taxpayer, and with a filing
\* and --ssn given the taxpayer tree was printed.
C6_NoFilingMessageOnlyWithoutFiling ==
    (pc = "done" /\ args.ssn)
    => /\ (\E i \in 1..Len(printed) : printed[i].kind = "no_filing") => ~db.filing
       /\ db.filing => \E i \in 1..Len(printed) :
                          printed[i].kind = "tree" /\ printed[i].view = "Taxpayer View"

\* C7: for a taxpayer with a filing, calculate_taxable_income returns one
\* value, MAX(0, AGI - standard deduction).
C7_TaxableIncomeIsClampedDifference ==
    taxable_income.called
    => taxable_income.rows =
          {Max(0, calculate_agi(db) - StandardDeductions[db.status])}

\* The tax accumulated over the brackets below the i-th, in cents.
RECURSIVE TaxBelow(_, _)
TaxBelow(bs, i) ==
    IF i <= 1 THEN 0
    ELSE TaxBelow(bs, i - 1) + (bs[i - 1].max - bs[i - 1].min) * bs[i - 1].rate

\* C8: in the 2024 configuration every bracket's base tax is the tax
\* accumulated over the lower brackets, and the federal tax computed for a
\* taxpayer is base + (taxable - min) * rate of every bracket that contains
\* the taxable income: at a shared boundary both brackets give the amount.
C8_BaseTaxIsAccumulatedTax ==
    /\ \A st \in FilingStatuses : \A i \in 1..Len(TaxBrackets[st]) :
          TaxBrackets[st][i].base = TaxBelow(TaxBrackets[st], i)
    /\ federal_tax.called =>
          \A t \in calculate_taxable_income(db) :
             \A b \in get_tax_bracket(t, db.status) :
                federal_tax.rows = {b.base + (t - b.min) * b.rate}

\* C8 witness: the federal tax was computed for a taxable income that lies on
\* the boundary shared by two brackets.
C8_Witness ==
    /\ federal_tax.called
    /\ federal_tax.rows # {}
    /\ \E t \in calculate_taxable_income(db) :
          Cardinality(get_tax_bracket(t, db.status)) = 2

\* C9: in the two builder classes a call whose field has an aggregation
\* function renders nothing for the field's dependencies: while that call is
\* the innermost one, no line is added to the tree.
C9_AggregationsAreLeaves ==
    [][(/\ builder \in {"pure", "taxpayer"}
        /\ status = "running"
        /\ stack # <<>>
        /\ FuncSpec(fields[stack[Len(stack)].id].function).type = "aggregation")
       => tree' = tree]_vars

PrintedKinds == [i \in 1..Len(printed) |-> <<printed[i].kind, printed[i].view>>]

IsPrefix(s, t) == Len(s) <= Len(t) /\ s = SubSeq(t, 1, Len(s))

CompareWithFiling ==
    << <<"header", "Year View">>, <<"tree", "Year View">>,
       <<"header", "Taxpayer View">>, <<"tree", "Taxpayer View">> >>

CompareWithoutFiling ==
    << <<"header", "Year View">>, <<"tree", "Year View">>, <<"no_filing", "">> >>

\* C10: with --compare and --ssn, main prints the year view first and the
\* taxpayer view or the no-filing message second, each once; the year view is
\* printed whether or not the taxpayer part finds anything.
C10_GenericFirstThenTaxpayer ==
    (args.compare /\ args.ssn)
    => /\ IsPrefix(PrintedKinds, CompareWithFiling)
          \/ IsPrefix(PrintedKinds, CompareWithoutFiling)
       /\ pc = "done" => PrintedKinds \in {CompareWithFiling, CompareWithoutFiling}

\* C10 witness: main has ended in comparison mode for a taxpayer without a
\* filing, after printing the year tree and then the message.
C10_Witness ==
    /\ pc = "done"
    /\ args.compare /\ args.ssn
    /\ ~db.filing
    /\ PrintedKinds = CompareWithoutFiling
    /\ printed[2].lines # <<>>

\* C11: with --compare and without --ssn, main never makes a rendering call
\* and prints no header and no tree; when it has ended it has printed the
\* error message and nothing else.
C11_CompareWithoutSsnIsAnError ==
    (args.compare /\ ~args.ssn /\ pc \in {"start", "generic", "specific", "done"})
    => /\ status = "off"
       /\ tree = <<>>
       /\ queries = <<>>
       /\ \A i \in 1..Len(printed) : printed[i].kind = "error"
       /\ pc = "done" => PrintedKinds = << <<"error", "">> >>

\* C11 witness: main has ended after --compare without --ssn.
C11_Witness ==
    /\ pc = "done"
    /\ args.compare /\ ~args.ssn
    /\ Len(printed) = 1
    /\ driver = "closed"


\* What a run of the program writes, started on a database just created: the
\* definitions and the inserted instances, in program order.
RECURSIVE WrittenFrom(_, _, _)
WrittenFrom(prog, i, d) ==
    IF i > Len(prog) THEN d
    ELSE LET o == prog[i]
         IN WrittenFrom(prog, i + 1,
               CASE o.op = "define" -> [d EXCEPT !.schema = @ \cup {o.arg}]
                 [] o.op = "insert" ->
                       [d EXCEPT !.data = AddItems(@, o.arg,
                             IF o.per = "" THEN 1 ELSE HowMany(d.data, o.per))]
                 [] OTHER -> d)

\* C12: after a successful run of a setup script the tax-system database holds
\* exactly the schema and the data that run wrote, whatever it held before the
\* run and whether the run is the first or a repetition.
C12_SetupLeavesExactlyWhatItWrote ==
    (script \in SetupScripts /\ outcome = "returned")
    => databases["tax-system"] = WrittenFrom(Program(script), 1, EmptyDatabase)

C12_Witness ==
    /\ script \in SetupScripts
    /\ outcome = "returned"
    /\ runs = 1
    /\ HowMany(databases["tax-system"].data, "taxpayer") = 1
    /\ HowMany(databases["tax-system"].data, "agi_lineage") = 3


\* The steps of the module docstring of setup_audit_trail.py, a transaction's
\* opening written "begin" and its commit (for the reads: its end) by the
\* name of the step.
DocumentedOrder ==
    <<"create", "begin", "schema", "begin", "sample_data", "begin", "audit_trail",
      "begin", "verify">>

\* C13: setup_audit_trail.setup_database completes its steps in the documented
\* order (create, schema, sample data, audit trail, verification reads); at
\* most one transaction is open, and only between its opening and its commit,
\* so each is committed before the next is opened; once a step has raised, no
\* step runs and the database and the list of completed steps stay as they are.
C13_AuditStepsInDocumentedOrder ==
    /\ [](script = "setup_audit_trail"
          => /\ IsPrefix(log, DocumentedOrder)
             /\ Len(open_txs) <= 1
             /\ open_txs # <<>> => (log # <<>> /\ log[Len(log)] = "begin")
             /\ (outcome = "running" /\ log # <<>> /\ log[Len(log)] = "begin")
                   => open_txs # <<>>)
    /\ [][(script = "setup_audit_trail" /\ outcome = "raised")
            => UNCHANGED <<at, log, databases, open_txs>>]_vars

C13_Witness ==
    /\ script = "setup_audit_trail"
    /\ outcome = "returned"
    /\ log = DocumentedOrder
    /\ connection = "closed"
    /\ HowMany(databases["tax-system"].data, "income_step") = 3


\* C14: whenever test_attribute_definitions has finished after making sure the
\* expense-tracker database exists, normally or because a definition raised,
\* that database no longer exists.
C14_ExpenseTrackerIsTemporary ==
    (/\ script = "test_definition_exercises"
     /\ outcome # "running"
     /\ \E i \in 1..Len(log) : log[i] = "ensured")
    => ~databases["expense-tracker"].exists


\* C16: when the main function of query_dependency_tree, get_calculation_tree,
\* setup_database_simple or verify_database has ended (normal completion,
\* early return, exception, exit), no transaction is open and the driver is
\* not open: it was closed, or it was never opened because the connection
\* failed before the first operation.
C16_DriverClosedOnEveryPath ==
    (/\ script \in {"query_dependency_tree", "get_calculation_tree",
                    "setup_database_simple", "verify_database"}
     /\ outcome \in {"returned", "raised", "exited"})
    => /\ open_txs = <<>>
       /\ connection # "open"
       /\ connection = "none" => at = 1

\* An exception raised while a transaction is open.
C16_Witness ==
    /\ script = "get_calculation_tree"
    /\ outcome = "raised"
    /\ connection = "closed"
    /\ log # <<>> /\ log[Len(log)] = "begin"
    /\ Program(script)[at].op = "read"


\* The output with every displayed field id renamed and nothing else changed.
RenameTree(t) ==
    [i \in 1..Len(t) |-> [t[i] EXCEPT !.id = IF @ = "" THEN "" ELSE Rename(@)]]

\* C15: the tree a builder prints for the renamed metadata is the tree it
\* printed for the original metadata with the id labels renamed: the same
\* lines, connectors and indents, and the same value annotations.
C15_RenamingChangesOnlyTheLabel ==
    (pc = "scripts" /\ Len(printed) = 2 /\ printed[1].view = printed[2].view)
    => printed[2].lines = RenameTree(printed[1].lines)


\* Line i of t is an entry: it is drawn with a connector.
IsEntry(t, i) == t[i].conn \in {"mid", "last"}

\* An entry of the same sibling group follows entry i: a later entry at the
\* same indent, with no line of a shallower indent in between.
HasLaterSibling(t, i) ==
    \E j \in (i + 1)..Len(t) :
        /\ IsEntry(t, j)
        /\ t[j].ind = t[i].ind
        /\ \A k \in (i + 1)..(j - 1) : Len(t[k].ind) >= Len(t[i].ind)

\* C17: in the tree a top-level call returns, an entry is drawn with the
\* corner connector exactly when no entry of its sibling group follows it,
\* and with the tee connector otherwise.
C17_LastSiblingAndOnlyItHasCorner ==
    status = "returned"
    => \A i \in 1..Len(tree) :
          IsEntry(tree, i)
          => tree[i].conn = (IF HasLaterSibling(tree, i) THEN "mid" ELSE "last")


\* C18: a step of a top-level rendering call (the call itself, the call for a
\* dependency, a return) leaves the fields mapping, the function specs, the
\* taxpayer's values and context, the calculations and the database as they
\* are; of the data the call works on only the visited set changes, and it
\* only grows.
C18_RenderingLeavesLoadedDataUnchanged ==
    [][(status \in {"idle", "running"})
       => (/\ fields' = fields
           /\ function_specs' = function_specs
           /\ taxpayer_values' = taxpayer_values
           /\ taxpayer_context' = taxpayer_context
           /\ calculations' = calculations
           /\ db' = db
           /\ visited \subseteq visited')]_vars

C18_Witness ==
    /\ status = "returned"
    /\ builder = "taxpayer"
    /\ Cardinality(visited) >= 2
    /\ Len(NodeIds(tree)) >= 2
    /\ taxpayer_values # <<>>
    /\ fields = load_metadata(db.field_ids, db.dependency_rows)

====
